---- MODULE Spec2Model ----
(***************************************************************************)
(* Wallet ledger (VirtualWalletContext.tsx), wager validator               *)
(* (validation.ts) and crash round (PlaneGameClient.tsx) of Victory Vision.*)
(*                                                                         *)
(* Money is counted in ten-thousandths of a unit, so that toFixed(2) is a  *)
(* real rounding (a bet with two decimals times a multiplier with two      *)
(* decimals has four).  Multipliers are counted in hundredths.  Time is    *)
(* counted in minutes.                                                     *)
(*                                                                         *)
(* Every asynchronous wallet operation is three steps: the handler up to   *)
(* its await (validation against the state captured by the closure), the   *)
(* store applying or rejecting the write, and the continuation after the   *)
(* await (the setState calls or the catch block).  Other handlers run      *)
(* between these steps.                                                    *)
(***************************************************************************)
EXTENDS Integers, Sequences, FiniteSets, Bags, TLC

\* ------------------------------------------------------------------ bounds
MaxBets == 2          \* bet documents ever created
MaxInFlight == 2      \* store writes awaiting their answer at one time
MaxRounds == 1        \* startGame is not called after this many rounds
MaxMultiplier == 103  \* ticks are not taken above this multiplier
MaxCashOuts == 1      \* cash-outs followed within one round
MaxCalls == 4         \* calls of the wallet operations

\* --------------------------------------------------------------- constants
Units(n) == n * 10000

INITIAL_VIRTUAL_BALANCE == Units(1000)
MIN_BET_AMOUNT == Units(5)
MAX_BET_AMOUNT == Units(500)
BET_WITHDRAWAL_CUTOFF_MS == 5

NoBet == [id |-> 0]
NoError == "ok"
NoToast == [title |-> "", description |-> ""]
\* the account signed in when the page is loaded, a second account, and the
\* null that currentUser holds when nobody is signed in
User == "u1"
OtherUser == "u2"
NoUser == "null"

\* inputs offered by the presentation layer
MatchIds == {"M1", "M2"}
MatchTimes == {6}
\* the instants at which the clock is read: before the withdrawal cutoff of a
\* match at 6, at the cutoff, at the match time and after it
Instants == {0, 1, 6, 7}
Stakes == {Units(500)}
OddsValues == {250}
FundAmounts == {0, Units(500)}
\* a wallet document found by fetchUserWalletData, or the one it creates
LoadedBalances == {Units(500)}

\* ----------------------------------------------------------------- helpers
\* Number.prototype.toFixed(2) followed by parseFloat: round half away from 0
toFixed2(x) ==
  IF x >= 0 THEN ((x + 50) \div 100) * 100
  ELSE 0 - (((0 - x) + 50) \div 100) * 100

RECURSIVE SumOver(_, _)
SumOver(S, f) ==
  IF S = {} THEN 0
  ELSE LET x == CHOOSE y \in S : TRUE IN f[x] + SumOver(S \ {x}, f)


BetIds == 1..MaxBets

VARIABLES
  now,           \* Date.now(), in minutes
  currentUser,   \* currentUser of the AuthContext: a uid, or NoUser for null
  storeBalance,  \* wallets/{uid}.balance in the document store
  storeBets,     \* bets/{id} documents in the document store
  balance,       \* useState balance of the provider
  bets,          \* useState bets of the provider, newest first
  inflight,      \* store writes whose promise has not been consumed yet
  nextBetId,     \* next auto-generated bet document id
  lastToast,     \* the last toast shown
  commitLog,     \* history: per wager, the committed writes that touched it
  calls,         \* history: number of wallet operations called so far
  \* PlaneGameClient: the state of the committed render, which is what every
  \* handler and effect closure of that render reads
  gamePhase, currentMultiplier, crashPoint, multiplierHistory, startTime,
  betAmount, targetMultiplier,
  pending,       \* the same state with the queued setState calls applied
  effectPending, \* the effect of the committed render has not run yet
  intervalRef,   \* intervalRef.current, 0 for null
  liveIntervals, \* the intervals set and not cleared
  round,         \* history: rounds started so far
  shownRound,    \* history: the round the committed render belongs to
  roundCredits,  \* history: settlement credits applied for the shown round
  debitedStake   \* history: the stake startGame passed to placeGameBet for
                 \* the round started last, 0 before the first round

ledgerVars == <<storeBalance, storeBets, balance, bets, inflight, nextBetId,
                lastToast, commitLog, calls>>
gameVars == <<gamePhase, currentMultiplier, crashPoint, multiplierHistory,
              startTime, betAmount, targetMultiplier, pending, effectPending,
              intervalRef, liveIntervals, round, shownRound, roundCredits,
              debitedStake>>
vars == <<now, currentUser, ledgerVars, gameVars>>

\* ------------------------------------------------------------- validator
\* a validateBetPlacement that looks at the balance before the maximum
validateBetPlacementBalanceFirst(stake, currentBalance, existingBets, matchId, minBetAmount, maxBetAmount) ==
  IF stake <= 0 THEN "Invalid Stake"
  ELSE IF stake < minBetAmount THEN "Bet Too Small"
  ELSE IF stake > currentBalance THEN "Insufficient Balance"
  ELSE IF stake > maxBetAmount THEN "Bet Too Large"
  ELSE IF \E i \in 1..Len(existingBets) :
            /\ existingBets[i].matchId = matchId
            /\ existingBets[i].status = "pending"
            /\ existingBets[i].betType = "match"
       THEN "Bet Already Placed"
  ELSE NoError

\* validateBetPlacement: the title of the first failing rule, or NoError
validateBetPlacement(stake, currentBalance, existingBets, matchId, minBetAmount, maxBetAmount) ==
  IF stake <= 0 THEN "Invalid Stake"
  ELSE IF stake < minBetAmount THEN "Bet Too Small"
  ELSE IF stake > maxBetAmount THEN "Bet Too Large"
  ELSE IF stake > currentBalance THEN "Insufficient Balance"
  ELSE IF \E i \in 1..Len(existingBets) :
            /\ existingBets[i].matchId = matchId
            /\ existingBets[i].status = "pending"
            /\ existingBets[i].betType = "match"
       THEN "Bet Already Placed"
  ELSE NoError

\* ------------------------------------------------------------ operations
Op(kind, amount, bet, updates, applied) ==
  [kind |-> kind, amount |-> amount, bet |-> bet, updates |-> updates,
   applied |-> applied, phase |-> "sent"]

NoUpdates == [id \in BetIds |-> "none"]

\* the write of op answered by the store, and the promise of op consumed
Acked(op) ==
  (inflight (-) SetToBag({op})) (+) SetToBag({[op EXCEPT !.phase = "acked"]})

Consumed(op) == inflight (-) SetToBag({op})

\* how many writes of one kind of operation are in flight
InFlightOf(kind) ==
  LET S == {op \in BagToSet(inflight) : op.kind = kind}
  IN SumOver(S, [op \in S |-> CopiesIn(op, inflight)])

Toast(title, description) == [title |-> title, description |-> description]

\* an amount check of addFunds that lets zero through
addFundsInvalidAmountNegativeOnly(amount) == amount < 0

\* the amount check of addFunds
addFundsInvalidAmount(amount) == amount <= 0

\* addFunds up to the await of updateDoc
AddFundsStart(amount) ==
  /\ IF currentUser = NoUser
     THEN /\ lastToast' = Toast("Login Required", "Please log in to add funds.")
          /\ UNCHANGED inflight
     ELSE IF addFundsInvalidAmount(amount)
     THEN /\ lastToast' = Toast("Invalid Amount", "")
          /\ UNCHANGED inflight
     ELSE /\ BagCardinality(inflight) < MaxInFlight
          /\ inflight' = inflight (+) SetToBag({Op("addFunds", amount, NoBet, NoUpdates, 0)})
          /\ UNCHANGED lastToast
  /\ calls < MaxCalls /\ calls' = calls + 1
  /\ UNCHANGED <<now, currentUser, gameVars, storeBalance, storeBets, balance, bets, nextBetId,
                 commitLog>>

\* placeBet up to the await of batch.commit
PlaceBetStart(matchId, stake, odds, matchTime) ==
  LET validationResult ==
        validateBetPlacement(stake, balance, bets, matchId,
                             MIN_BET_AMOUNT, MAX_BET_AMOUNT)
      newBetData ==
        [id |-> nextBetId, matchId |-> matchId, stake |-> stake,
         potentialWinnings |-> toFixed2((stake * odds) \div 100),
         matchTime |-> matchTime, status |-> "pending",
         betType |-> "match", userId |-> currentUser]
  IN
  /\ IF currentUser = NoUser
     THEN /\ lastToast' = Toast("Login Required", "Please log in to place bets.")
          /\ UNCHANGED <<inflight, nextBetId>>
     ELSE IF validationResult # NoError
     THEN /\ lastToast' = Toast(validationResult, "")
          /\ UNCHANGED <<inflight, nextBetId>>
     ELSE /\ BagCardinality(inflight) < MaxInFlight
          /\ nextBetId <= MaxBets
          /\ inflight' = inflight (+) SetToBag({Op("placeBet", stake, newBetData, NoUpdates, 0)})
          /\ nextBetId' = nextBetId + 1
          /\ UNCHANGED lastToast
  /\ calls < MaxCalls /\ calls' = calls + 1
  /\ UNCHANGED <<now, currentUser, gameVars, storeBalance, storeBets, balance, bets, commitLog>>

\* a cutoff check that lets a withdrawal through at exactly the cutoff
tooCloseToMatchStartExclusive(eventTime) ==
  eventTime - now < BET_WITHDRAWAL_CUTOFF_MS

\* withdrawBet's cutoff check: eventTime - Date.now() <= BET_WITHDRAWAL_CUTOFF_MS
tooCloseToMatchStart(eventTime) ==
  eventTime - now <= BET_WITHDRAWAL_CUTOFF_MS

\* withdrawBet up to the await of batch.commit
WithdrawBetStart(betId) ==
  LET found == {i \in 1..Len(bets) :
                  bets[i].id = betId /\ bets[i].userId = currentUser}
  IN
  /\ IF currentUser = NoUser
     THEN /\ lastToast' = Toast("Login Required", "Please log in to manage bets.")
          /\ UNCHANGED inflight
     ELSE IF found = {}
     THEN /\ lastToast' = Toast("Error", "Bet not found or unauthorized.")
          /\ UNCHANGED inflight
     ELSE LET betToWithdraw == bets[CHOOSE i \in found : \A j \in found : i <= j]
          IN
          IF betToWithdraw.betType # "match"
          THEN /\ lastToast' = Toast("Withdrawal Failed",
                                     "This bet type cannot be withdrawn.")
               /\ UNCHANGED inflight
          ELSE IF betToWithdraw.status # "pending"
          THEN /\ lastToast' = Toast("Withdrawal Failed", "Bet is already resolved.")
               /\ UNCHANGED inflight
          ELSE IF tooCloseToMatchStart(betToWithdraw.matchTime)
          THEN /\ lastToast' = Toast("Withdrawal Failed",
                                     "Too close to match start.")
               /\ UNCHANGED inflight
          ELSE /\ BagCardinality(inflight) < MaxInFlight
               /\ inflight' = inflight (+) SetToBag({Op("withdrawBet", betToWithdraw.stake,
                                   betToWithdraw, NoUpdates, 0)})
               /\ UNCHANGED lastToast
  /\ calls < MaxCalls /\ calls' = calls + 1
  /\ UNCHANGED <<now, currentUser, gameVars, storeBalance, storeBets, balance, bets, nextBetId,
                 commitLog>>

\* a sweeper filter with the comparison of the match time turned around
pendingBetsToResolveNotStarted ==
  {i \in 1..Len(bets) :
     /\ bets[i].userId = currentUser
     /\ bets[i].betType = "match"
     /\ bets[i].status = "pending"
     /\ bets[i].matchTime > now}

\* the bets the sweeper picks from the bets captured by its closure
pendingBetsToResolve ==
  {i \in 1..Len(bets) :
     /\ bets[i].userId = currentUser
     /\ bets[i].betType = "match"
     /\ bets[i].status = "pending"
     /\ bets[i].matchTime < now}

\* a sweep that pays the potential winnings of every bet it resolves
totalWinningsThisCycleOfAll(won) ==
  LET ids == {bets[i].id : i \in pendingBetsToResolve}
      winnings == [id \in BetIds |->
                     LET i == CHOOSE k \in 1..Len(bets) : bets[k].id = id
                     IN bets[i].potentialWinnings]
  IN SumOver(ids, winnings)

\* totalWinningsThisCycle: the potential winnings of the bets drawn as won
totalWinningsThisCycle(won) ==
  LET winnings == [id \in BetIds |->
                     LET i == CHOOSE k \in 1..Len(bets) : bets[k].id = id
                     IN bets[i].potentialWinnings]
  IN SumOver(won, winnings)

\* resolveBetsAndUpdateState up to the await of batch.commit; won is the set
\* of bets for which Math.random() < 0.4
resolveBetsAndUpdateState(won) ==
  LET ids == {bets[i].id : i \in pendingBetsToResolve}
      updatedBetStatuses ==
        [id \in BetIds |-> IF id \in won THEN "won"
                           ELSE IF id \in ids THEN "lost" ELSE "none"]
  IN
  /\ currentUser # NoUser
  /\ Len(bets) # 0
  /\ ids # {}
  /\ won \subseteq ids
  /\ BagCardinality(inflight) < MaxInFlight
  /\ inflight' = inflight (+) SetToBag({Op("resolve", totalWinningsThisCycle(won),
                      NoBet, updatedBetStatuses, 0)})
  /\ UNCHANGED <<now, currentUser, gameVars, storeBalance, storeBets, balance, bets, nextBetId,
                 lastToast, commitLog>>

\* one run of the sweeper among the calls of the wallet that are followed
ResolveStart(won) ==
  /\ resolveBetsAndUpdateState(won)
  /\ calls < MaxCalls /\ calls' = calls + 1

\* the 60 s interval of the resolution effect fires, as often as it likes
SweeperInterval(won) ==
  /\ resolveBetsAndUpdateState(won)
  /\ UNCHANGED calls

\* ------------------------------------------------------- the document store
Logged(id, kind) == [commitLog EXCEPT ![id][kind] = @ + 1]

\* a store that takes an addFunds only when nothing else is in flight
StoreAddFundsUnlessBusy(op) ==
  /\ op.kind = "addFunds" /\ op.phase = "sent"
  /\ BagCardinality(inflight) = 1
  /\ storeBalance' = storeBalance + op.amount
  /\ inflight' = Acked(op)
  /\ UNCHANGED <<now, currentUser, gameVars, storeBets, balance, bets, nextBetId, lastToast,
                 commitLog, calls>>

\* increment(amount) on the wallet document (addFunds)
StoreAddFunds(op) ==
  /\ op.kind = "addFunds" /\ op.phase = "sent"
  /\ storeBalance' = storeBalance + op.amount
  /\ inflight' = Acked(op)
  /\ UNCHANGED <<now, currentUser, gameVars, storeBets, balance, bets, nextBetId, lastToast,
                 commitLog, calls>>

\* a placeBet whose two writes are not one batch: the bet without the debit
PlaceBetBatchNoDebit(op) ==
  /\ storeBets' = [storeBets EXCEPT ![op.bet.id] = op.bet]
  /\ storeBalance' = storeBalance

\* the batch of placeBet: set(betDocRef) and increment(-stake), atomically
PlaceBetBatch(op) ==
  /\ storeBets' = [storeBets EXCEPT ![op.bet.id] = op.bet]
  /\ storeBalance' = storeBalance - op.amount

StorePlaceBet(op) ==
  /\ op.kind = "placeBet" /\ op.phase = "sent"
  /\ PlaceBetBatch(op)
  /\ inflight' = Acked(op)
  /\ UNCHANGED <<now, currentUser, gameVars, balance, bets, nextBetId, lastToast, commitLog, calls>>

\* a withdrawBet batch that refunds the potential winnings
WithdrawBetBatchPaysWinnings(op) ==
  /\ storeBets' = [storeBets EXCEPT ![op.bet.id].status = "withdrawn"]
  /\ storeBalance' = storeBalance + op.bet.potentialWinnings

\* the batch of withdrawBet: update(status) and increment(stake); update()
\* does not look at the stored status
WithdrawBetBatch(op) ==
  /\ storeBets' = [storeBets EXCEPT ![op.bet.id].status = "withdrawn"]
  /\ storeBalance' = storeBalance + op.amount

\* the batch of withdrawBet applied by the store, atomically
StoreWithdrawBet(op) ==
  LET id == op.bet.id IN
  /\ op.kind = "withdrawBet" /\ op.phase = "sent"
  /\ WithdrawBetBatch(op)
  /\ commitLog' = Logged(id, "withdrawn")
  /\ inflight' = Acked(op)
  /\ UNCHANGED <<now, currentUser, gameVars, balance, bets, nextBetId, lastToast, calls>>

\* the batch of the sweeper: update(status) per bet and one increment
StoreResolve(op) ==
  LET updates == op.updates IN
  /\ op.kind = "resolve" /\ op.phase = "sent"
  /\ storeBets' = [id \in BetIds |->
                     IF updates[id] # "none"
                     THEN [storeBets[id] EXCEPT !.status = updates[id]]
                     ELSE storeBets[id]]
  /\ storeBalance' = storeBalance + op.amount
  /\ commitLog' = [id \in BetIds |->
                     IF updates[id] # "none"
                     THEN [commitLog[id] EXCEPT !.resolved = @ + 1]
                     ELSE commitLog[id]]
  /\ inflight' = Acked(op)
  /\ UNCHANGED <<now, currentUser, gameVars, balance, bets, nextBetId, lastToast, calls>>

\* the store rejects a write of addFunds, placeBet or withdrawBet: the
\* catch block shows a toast and changes nothing else
StoreFail(op) ==
  /\ op.kind \in {"addFunds", "placeBet", "withdrawBet"}
  /\ op.phase = "sent"
  /\ inflight' = Consumed(op)
  /\ lastToast' = Toast(CASE op.kind = "addFunds" -> "Error"
                          [] op.kind = "placeBet" -> "Bet Failed"
                          [] op.kind = "withdrawBet" -> "Error",
                        "failed")
  /\ UNCHANGED <<now, currentUser, gameVars, storeBalance, storeBets, balance, bets, nextBetId,
                 commitLog, calls>>

\* the store rejects the sweeper's batch; a toast only for 'unavailable'
StoreFailResolve(op, code) ==
  /\ op.kind = "resolve" /\ op.phase = "sent"
  /\ inflight' = Consumed(op)
  /\ lastToast' = IF code = "unavailable"
                  THEN Toast("Network Issue", "failed") ELSE lastToast
  /\ UNCHANGED <<now, currentUser, gameVars, storeBalance, storeBets, balance, bets, nextBetId,
                 commitLog, calls>>

\* ------------------------------------------------- continuations after await
AddFundsDone(op) ==
  /\ op.kind = "addFunds" /\ op.phase = "acked"
  /\ balance' = toFixed2(balance + op.amount)
  /\ lastToast' = Toast("Funds Added", "")
  /\ inflight' = Consumed(op)
  /\ UNCHANGED <<now, currentUser, gameVars, storeBalance, storeBets, bets, nextBetId, commitLog, calls>>

\* bets are kept newest first; timestamps are taken here, so the new bet is
\* the newest and the sort leaves <<localBet>> \o bets as it is
PlaceBetDone(op) ==
  /\ op.kind = "placeBet" /\ op.phase = "acked"
  /\ balance' = toFixed2(balance - op.amount)
  /\ bets' = <<op.bet>> \o bets
  /\ lastToast' = Toast("Bet Placed!", "")
  /\ inflight' = Consumed(op)
  /\ UNCHANGED <<now, currentUser, gameVars, storeBalance, storeBets, nextBetId, commitLog, calls>>

WithdrawBetDone(op) ==
  LET betId == op.bet.id IN
  /\ op.kind = "withdrawBet" /\ op.phase = "acked"
  /\ bets' = [k \in 1..Len(bets) |->
                IF bets[k].id = betId
                THEN [bets[k] EXCEPT !.status = "withdrawn"] ELSE bets[k]]
  /\ balance' = toFixed2(balance + op.amount)
  /\ lastToast' = Toast("Bet Withdrawn", "")
  /\ inflight' = Consumed(op)
  /\ UNCHANGED <<now, currentUser, gameVars, storeBalance, storeBets, nextBetId, commitLog, calls>>

ResolveDone(op) ==
  LET updates == op.updates IN
  /\ op.kind = "resolve" /\ op.phase = "acked"
  /\ bets' = [k \in 1..Len(bets) |->
                IF updates[bets[k].id] # "none"
                THEN [bets[k] EXCEPT !.status = updates[bets[k].id]]
                ELSE bets[k]]
  /\ balance' = IF op.amount > 0
                THEN toFixed2(balance + op.amount) ELSE balance
  /\ lastToast' = Toast("Bet Resolved", "")
  /\ inflight' = Consumed(op)
  /\ UNCHANGED <<now, currentUser, gameVars, storeBalance, storeBets, nextBetId, commitLog, calls>>

\* time passes
AdvanceTime ==
  /\ now' \in Instants
  /\ now' > now
  /\ UNCHANGED <<currentUser, ledgerVars, gameVars>>

\* ---------------------------------------------------------- the plane game
MIN_BET == Units(1)
MAX_BET == Units(100)
MIN_MULTIPLIER_TARGET == 101
MAX_MULTIPLIER_TARGET == 10000

\* the crash points drawn in startGame that the model follows: the instant
\* crash and one of the bucket (1.00, 2.00]
CrashPoints == {100, 102}

\* the largest crash point startGame can draw: 5 + Math.random() * (20 - 5)
MAX_CRASH_POINT == 2000

\* Math.random() * 0.2 + 0.9, in hundredths
Jitters == {90, 109}
\* target inputs: below the minimum (1.00), the minimum, and the default
TargetInputs == {100, 101, 200}

\* what is typed into the bet input: the default, and more than MAX_BET
BetInputs == {Units(10), Units(1000)}

\* validateGameAction for actionType 'place_bet'
validateGameAction(stake, currentBalance, minBetAmount, maxBetAmount) ==
  IF stake <= 0 THEN "Invalid Stake"
  ELSE IF stake < minBetAmount THEN "plane Bet Too Small"
  ELSE IF stake > maxBetAmount THEN "plane Bet Too Large"
  ELSE IF stake > currentBalance THEN "Insufficient Balance"
  ELSE NoError

\* a stopGameInterval that forgets clearInterval
stopGameIntervalLeak == liveIntervals

\* stopGameInterval: clearInterval(intervalRef.current) leaves these live
stopGameInterval == liveIntervals \ {intervalRef}

\* a tick updater without the 0.01 it always adds
TickValueWithoutStep(prevMultiplier, jitter) ==
  (prevMultiplier * 100000 + prevMultiplier * 3 * jitter + 50000)
    \div 100000

\* the tick's updater: prev + 0.01 + prev * growthFactor * jitter, toFixed(2).
\* startTime in the closure of startGame is the null of the idle render, so
\* growthFactor is 0.003
TickValue(prevMultiplier, jitter) ==
  (prevMultiplier * 100000 + 100000 + prevMultiplier * 3 * jitter + 50000)
    \div 100000

\* the last sample of the trace when a round ends at multiplier final
FinalPoint(prevHistory, final) ==
  IF Len(prevHistory) = 0
  THEN IF final > 100 THEN <<100, final>> ELSE <<100>>
  ELSE IF prevHistory[Len(prevHistory)] < final \/ Len(prevHistory) = 1
  THEN Append(prevHistory, final)
  ELSE [prevHistory EXCEPT ![Len(prevHistory)] = final]

gameState ==
  [gamePhase |-> gamePhase, currentMultiplier |-> currentMultiplier,
   crashPoint |-> crashPoint, multiplierHistory |-> multiplierHistory,
   startTime |-> startTime, betAmount |-> betAmount,
   targetMultiplier |-> targetMultiplier]

\* startGame up to the await of updateDoc inside placeGameBet: the game's
\* validation, then the wallet's with the default limits
StartGame ==
  LET numericBetAmount == betAmount
      gameResult == validateGameAction(numericBetAmount, balance, MIN_BET, MAX_BET)
      walletResult == validateGameAction(numericBetAmount, balance,
                                         MIN_BET_AMOUNT, MAX_BET_AMOUNT)
  IN
  /\ gamePhase \in {"idle", "betting"}
  /\ IF gameResult # NoError
     THEN /\ lastToast' = Toast(gameResult, "")
          /\ UNCHANGED inflight
     ELSE IF currentUser = NoUser
     THEN /\ lastToast' = Toast("Login Required", "Please log in to play games.")
          /\ UNCHANGED inflight
     ELSE IF walletResult # NoError
     THEN /\ lastToast' = Toast(walletResult, "")
          /\ UNCHANGED inflight
     ELSE /\ BagCardinality(inflight) < MaxInFlight
          /\ round < MaxRounds
          /\ inflight' = inflight (+) SetToBag({Op("placeGameBet",
                            numericBetAmount, NoBet, NoUpdates, 0)})
          /\ UNCHANGED lastToast
  /\ UNCHANGED <<now, currentUser, gameVars, storeBalance, storeBets, balance, bets,
                 nextBetId, commitLog, calls>>

\* a placeGameBet that also writes a bet document, as placeBet does
StorePlaceGameBetWithRecord(op) ==
  /\ op.kind = "placeGameBet" /\ op.phase = "sent"
  /\ storeBalance' = storeBalance - op.amount
  /\ storeBets' = [storeBets EXCEPT ![1] =
                     [id |-> 1, matchId |-> "plane", stake |-> op.amount,
                      potentialWinnings |-> 0, matchTime |-> 0,
                      status |-> "pending", betType |-> "game", userId |-> User]]
  /\ inflight' = Acked(op)
  /\ UNCHANGED <<now, currentUser, gameVars, balance, bets, nextBetId,
                 lastToast, commitLog, calls>>

\* increment(-stake) on the wallet document (placeGameBet)
StorePlaceGameBet(op) ==
  /\ op.kind = "placeGameBet" /\ op.phase = "sent"
  /\ storeBalance' = storeBalance - op.amount
  /\ inflight' = Acked(op)
  /\ UNCHANGED <<now, currentUser, gameVars, storeBets, balance, bets, nextBetId,
                 lastToast, commitLog, calls>>

\* the store rejects it: placeGameBet returns false and startGame returns
StoreFailGameBet(op) ==
  /\ op.kind = "placeGameBet" /\ op.phase = "sent"
  /\ inflight' = Consumed(op)
  /\ lastToast' = Toast("Game Bet Failed", "failed")
  /\ UNCHANGED <<now, currentUser, gameVars, storeBalance, storeBets, balance, bets,
                 nextBetId, commitLog, calls>>

\* placeGameBet after its await, and startGame after its own: the round
\* starts with the drawn crash point and a new interval
PlaceGameBetDone(op, determinedCrashPoint) ==
  /\ op.kind = "placeGameBet" /\ op.phase = "acked"
  /\ balance' = toFixed2(balance - op.amount)
  /\ lastToast' = Toast("Plane Bet Placed!", "")
  /\ inflight' = Consumed(op)
  /\ pending' = [pending EXCEPT !.gamePhase = "running",
                                !.currentMultiplier = 100,
                                !.multiplierHistory = <<100>>,
                                !.startTime = TRUE,
                                !.crashPoint = determinedCrashPoint]
  /\ round' = round + 1
  /\ intervalRef' = round + 1
  /\ liveIntervals' = stopGameInterval \cup {round + 1}
  /\ UNCHANGED <<now, currentUser, storeBalance, storeBets, bets, nextBetId, commitLog,
                 calls, gamePhase, currentMultiplier, crashPoint,
                 multiplierHistory, startTime, betAmount, targetMultiplier,
                 effectPending, shownRound, roundCredits>>
  /\ debitedStake' = op.amount

\* one firing of a live interval: the updater is queued behind the others.
\* Ticks above MaxMultiplier are followed only when nothing is queued, which
\* is when the render needs one more tick to see the multiplier change
Tick(id, jitter) ==
  LET newValue == TickValue(pending.currentMultiplier, jitter) IN
  /\ id \in liveIntervals
  /\ pending.currentMultiplier < MaxMultiplier \/ pending = gameState
  /\ pending' = [pending EXCEPT
                   !.currentMultiplier = newValue,
                   !.multiplierHistory =
                      IF pending.startTime THEN Append(@, newValue) ELSE @]
  /\ UNCHANGED <<now, currentUser, ledgerVars, gamePhase, currentMultiplier, crashPoint,
                 multiplierHistory, startTime, betAmount, targetMultiplier,
                 effectPending, intervalRef, liveIntervals, round, shownRound,
                 roundCredits>>
  /\ UNCHANGED debitedStake

\* updateBalance: the local balance at once, the store write not awaited
updateBalance(amount) ==
  /\ balance' = toFixed2(balance + amount)
  /\ inflight' = IF currentUser # NoUser /\ amount # 0
                 THEN inflight (+) SetToBag({Op("updateBalance", amount, NoBet,
                                               NoUpdates, amount)})
                 ELSE inflight

\* an auto-cash-out check that forgets to compare the multiplier
autoCashOutDueAnyMultiplier ==
  /\ targetMultiplier # 0
  /\ targetMultiplier >= MIN_MULTIPLIER_TARGET

\* the auto-cash-out condition of the effect: the target is not empty, is a
\* number, is at least the minimum, and the multiplier has reached it
autoCashOutDue ==
  /\ targetMultiplier # 0
  /\ targetMultiplier >= MIN_MULTIPLIER_TARGET
  /\ currentMultiplier >= targetMultiplier

\* handleCashOut as the closure of the committed render runs it
handleCashOut ==
  LET finalCashOutMultiplier == currentMultiplier
      numericBetAmount == betAmount
      winnings == (numericBetAmount * finalCashOutMultiplier) \div 100
  IN
  IF gamePhase # "running"
  THEN UNCHANGED <<balance, inflight, pending, intervalRef, liveIntervals,
                   roundCredits, lastToast>>
  ELSE /\ liveIntervals' = stopGameInterval
       /\ intervalRef' = 0
       /\ updateBalance(winnings)
       /\ roundCredits' = roundCredits + 1
       /\ lastToast' = Toast("Cashed Out!", "")
       /\ pending' = [pending EXCEPT
                        !.gamePhase = "cashed_out",
                        !.currentMultiplier = finalCashOutMultiplier,
                        !.multiplierHistory =
                           IF startTime
                           THEN FinalPoint(@, finalCashOutMultiplier) ELSE @]

\* the Cash Out button, which is rendered while the phase is running
CashOutClick ==
  /\ gamePhase = "running"
  /\ roundCredits < MaxCashOuts
  /\ handleCashOut
  /\ UNCHANGED <<now, currentUser, storeBalance, storeBets, bets, nextBetId, commitLog,
                 calls, gamePhase, currentMultiplier, crashPoint,
                 multiplierHistory, startTime, betAmount, targetMultiplier,
                 effectPending, round, shownRound>>
  /\ UNCHANGED debitedStake

\* React applies the queued updates and commits the render
Render ==
  /\ ~effectPending
  /\ pending # gameState
  /\ gamePhase' = pending.gamePhase
  /\ currentMultiplier' = pending.currentMultiplier
  /\ crashPoint' = pending.crashPoint
  /\ multiplierHistory' = pending.multiplierHistory
  /\ startTime' = pending.startTime
  /\ betAmount' = pending.betAmount
  /\ targetMultiplier' = pending.targetMultiplier
  /\ shownRound' = round
  /\ roundCredits' = IF round = shownRound THEN roundCredits ELSE 0
  /\ effectPending' = TRUE
  /\ UNCHANGED <<now, currentUser, ledgerVars, pending, intervalRef, liveIntervals, round>>
  /\ UNCHANGED debitedStake

\* the crash / auto-cash-out effect of the committed render
GameEffect ==
  /\ effectPending
  /\ effectPending' = FALSE
  /\ IF gamePhase = "running" /\ currentMultiplier >= crashPoint
     THEN /\ liveIntervals' = stopGameInterval
          /\ intervalRef' = 0
          /\ pending' = [pending EXCEPT
                           !.gamePhase = "crashed",
                           !.currentMultiplier = crashPoint,
                           !.multiplierHistory =
                              IF startTime THEN FinalPoint(@, crashPoint) ELSE @]
          /\ lastToast' = Toast("Plane Flew Away!", "")
          /\ UNCHANGED <<balance, inflight, roundCredits>>
     ELSE IF gamePhase = "running" /\ autoCashOutDue
     THEN handleCashOut
     ELSE UNCHANGED <<balance, inflight, pending, intervalRef, liveIntervals,
                      roundCredits, lastToast>>
  /\ UNCHANGED <<now, currentUser, storeBalance, storeBets, bets, nextBetId, commitLog,
                 calls, gamePhase, currentMultiplier, crashPoint,
                 multiplierHistory, startTime, betAmount, targetMultiplier,
                 round, shownRound>>
  /\ UNCHANGED debitedStake

\* the Play Again button, rendered while the phase is crashed or cashed_out
ResetGame ==
  /\ gamePhase \in {"crashed", "cashed_out"}
  /\ liveIntervals' = stopGameInterval
  /\ intervalRef' = 0
  /\ pending' = [pending EXCEPT !.gamePhase = "idle",
                                !.currentMultiplier = 100,
                                !.multiplierHistory = <<100>>,
                                !.startTime = FALSE]
  /\ UNCHANGED <<now, currentUser, ledgerVars, gamePhase, currentMultiplier, crashPoint,
                 multiplierHistory, startTime, betAmount, targetMultiplier,
                 effectPending, round, shownRound, roundCredits>>
  /\ UNCHANGED debitedStake

\* the target input, rendered while the phase is idle or betting
TargetMultiplierChange(value) ==
  /\ gamePhase \in {"idle", "betting"}
  /\ pending' = [pending EXCEPT !.targetMultiplier = value]
  /\ UNCHANGED <<now, currentUser, ledgerVars, gamePhase, currentMultiplier, crashPoint,
                 multiplierHistory, startTime, betAmount, targetMultiplier,
                 effectPending, intervalRef, liveIntervals, round, shownRound,
                 roundCredits>>
  /\ UNCHANGED debitedStake

\* the bet input, rendered while the phase is idle or betting
BetAmountChange(value) ==
  /\ gamePhase \in {"idle", "betting"}
  /\ pending' = [pending EXCEPT !.betAmount = value]
  /\ UNCHANGED <<now, currentUser, ledgerVars, gamePhase, currentMultiplier, crashPoint,
                 multiplierHistory, startTime, betAmount, targetMultiplier,
                 effectPending, intervalRef, liveIntervals, round, shownRound,
                 roundCredits>>
  /\ UNCHANGED debitedStake

\* increment(amount) on the wallet document (updateBalance)
StoreUpdateBalance(op) ==
  /\ op.kind = "updateBalance" /\ op.phase = "sent"
  /\ storeBalance' = storeBalance + op.amount
  /\ inflight' = Consumed(op)
  /\ UNCHANGED <<now, currentUser, gameVars, storeBets, balance, bets, nextBetId,
                 lastToast, commitLog, calls>>

\* the store rejects it: the catch logs, and toasts only for 'unavailable'
StoreFailUpdateBalance(op, code) ==
  /\ op.kind = "updateBalance" /\ op.phase = "sent"
  /\ inflight' = Consumed(op)
  /\ lastToast' = IF code = "unavailable"
                  THEN Toast("Sync Issue", "failed") ELSE lastToast
  /\ UNCHANGED <<now, currentUser, gameVars, storeBalance, storeBets, balance, bets,
                 nextBetId, commitLog, calls>>

\* ------------------------------------------------------------ specification
Init ==
  /\ now = 0
  /\ currentUser = User
  /\ storeBalance \in LoadedBalances
  /\ balance = storeBalance
  /\ storeBets = [id \in BetIds |-> NoBet]
  /\ bets = <<>>
  /\ inflight = EmptyBag
  /\ nextBetId = 1
  /\ lastToast = NoToast
  /\ commitLog = [id \in BetIds |-> [withdrawn |-> 0, resolved |-> 0]]
  /\ calls = 0
  /\ gamePhase = "idle"
  /\ currentMultiplier = 100
  /\ crashPoint = 0
  /\ multiplierHistory = <<100>>
  /\ startTime = FALSE
  /\ betAmount = Units(10)
  /\ targetMultiplier = 200
  /\ pending = gameState
  /\ effectPending = FALSE
  /\ intervalRef = 0
  /\ liveIntervals = {}
  /\ round = 0
  /\ shownRound = 0
  /\ roundCredits = 0
  /\ debitedStake = 0

NextLedger ==
  \/ \E amount \in FundAmounts : AddFundsStart(amount)
  \/ \E matchId \in MatchIds, stake \in Stakes, odds \in OddsValues,
        matchTime \in MatchTimes : PlaceBetStart(matchId, stake, odds, matchTime)
  \/ \E betId \in BetIds : WithdrawBetStart(betId)
  \/ \E won \in SUBSET BetIds : ResolveStart(won)
  \/ \E op \in BagToSet(inflight) : StoreAddFunds(op)
  \/ \E op \in BagToSet(inflight) : StorePlaceBet(op)
  \/ \E op \in BagToSet(inflight) : StoreWithdrawBet(op)
  \/ \E op \in BagToSet(inflight) : StoreResolve(op)
  \/ \E op \in BagToSet(inflight) : StoreFail(op)
  \/ \E op \in BagToSet(inflight), code \in {"unavailable", "other"} :
        StoreFailResolve(op, code)
  \/ \E op \in BagToSet(inflight) : AddFundsDone(op)
  \/ \E op \in BagToSet(inflight) : PlaceBetDone(op)
  \/ \E op \in BagToSet(inflight) : WithdrawBetDone(op)
  \/ \E op \in BagToSet(inflight) : ResolveDone(op)
  \/ AdvanceTime

NextRound ==
  \/ StartGame
  \/ \E op \in BagToSet(inflight) : StorePlaceGameBet(op)
  \/ \E op \in BagToSet(inflight) : StoreFailGameBet(op)
  \/ \E op \in BagToSet(inflight), cp \in CrashPoints : PlaceGameBetDone(op, cp)
  \/ \E id \in liveIntervals, jitter \in Jitters : Tick(id, jitter)
  \/ CashOutClick
  \/ Render
  \/ GameEffect
  \/ ResetGame
  \/ \E value \in TargetInputs : TargetMultiplierChange(value)
  \/ \E value \in BetInputs : BetAmountChange(value)
  \/ \E op \in BagToSet(inflight) : StoreUpdateBalance(op)
  \/ \E op \in BagToSet(inflight), code \in {"unavailable", "other"} :
        StoreFailUpdateBalance(op, code)

Next == NextLedger \/ NextRound

\* the wallet with match bets, the plane game with its wallet calls, and both
LedgerSpec == Init /\ [][NextLedger]_vars
RoundSpec == Init /\ [][NextRound]_vars
Spec == Init /\ [][Next]_vars

\* ------------------------------------------------------ loading the wallet
\* storeBalance while the wallet document of the user does not exist
NoWallet == 0 - 1

\* the result of the bets query, sorted newest first
RECURSIVE BetsNewestFirst(_)
BetsNewestFirst(ids) ==
  IF ids = {} THEN <<>>
  ELSE LET newest == CHOOSE x \in ids : \A y \in ids : y <= x
       IN <<storeBets[newest]>> \o BetsNewestFirst(ids \ {newest})

\* a user who has no wallet document yet, or one who has
FetchInit ==
  /\ now = 0
  /\ currentUser = User
  /\ storeBalance \in {NoWallet} \cup LoadedBalances
  /\ balance = INITIAL_VIRTUAL_BALANCE
  /\ storeBets = [id \in BetIds |-> NoBet]
  /\ bets = <<>>
  /\ inflight = EmptyBag
  /\ nextBetId = 1
  /\ lastToast = NoToast
  /\ commitLog = [id \in BetIds |-> [withdrawn |-> 0, resolved |-> 0]]
  /\ calls = 0
  /\ gamePhase = "idle"
  /\ currentMultiplier = 100
  /\ crashPoint = 0
  /\ multiplierHistory = <<100>>
  /\ startTime = FALSE
  /\ betAmount = Units(10)
  /\ targetMultiplier = 200
  /\ pending = gameState
  /\ effectPending = FALSE
  /\ intervalRef = 0
  /\ liveIntervals = {}
  /\ round = 0
  /\ shownRound = 0
  /\ roundCredits = 0
  /\ debitedStake = 0

\* fetchUserWalletData up to the await of getDoc
FetchStart ==
  /\ calls < MaxCalls /\ calls' = calls + 1
  /\ BagCardinality(inflight) < MaxInFlight
  /\ inflight' = inflight (+) SetToBag({Op("fetch", 0, NoBet, NoUpdates, 0)})
  /\ UNCHANGED <<now, currentUser, gameVars, storeBalance, storeBets, balance, bets, nextBetId,
                 lastToast, commitLog>>

\* getDoc answers: the balance of the wallet found, or no wallet
FetchGetDoc(op) ==
  /\ op.kind = "fetch" /\ op.phase = "sent"
  /\ IF storeBalance # NoWallet
     THEN /\ balance' = storeBalance
          /\ inflight' = Consumed(op) (+) SetToBag({[op EXCEPT !.phase = "bets"]})
     ELSE /\ balance' = balance
          /\ inflight' = Consumed(op) (+) SetToBag({[op EXCEPT !.phase = "missing"]})
  /\ UNCHANGED <<now, currentUser, gameVars, storeBalance, storeBets, bets, nextBetId, lastToast,
                 commitLog, calls>>

\* setDoc(userWalletRef, {balance: INITIAL_VIRTUAL_BALANCE, ...}) applied by
\* the store: the document is written whole
FetchCreateWallet(op) ==
  /\ op.kind = "fetch" /\ op.phase = "missing"
  /\ storeBalance' = INITIAL_VIRTUAL_BALANCE
  /\ inflight' = Acked(op)
  /\ UNCHANGED <<now, currentUser, gameVars, storeBets, balance, bets, nextBetId, lastToast,
                 commitLog, calls>>

\* after the await of setDoc: setBalance, then the bets query is sent
FetchCreated(op) ==
  /\ op.kind = "fetch" /\ op.phase = "acked"
  /\ balance' = INITIAL_VIRTUAL_BALANCE
  /\ inflight' = Consumed(op) (+) SetToBag({[op EXCEPT !.phase = "bets"]})
  /\ UNCHANGED <<now, currentUser, gameVars, storeBalance, storeBets, bets, nextBetId, lastToast,
                 commitLog, calls>>

\* getDocs answers and setBets takes the bets of the user
FetchBets(op) ==
  /\ op.kind = "fetch" /\ op.phase = "bets"
  /\ bets' = BetsNewestFirst({id \in BetIds : storeBets[id] # NoBet})
  /\ inflight' = Consumed(op)
  /\ UNCHANGED <<now, currentUser, gameVars, storeBalance, storeBets, balance, nextBetId,
                 lastToast, commitLog, calls>>

\* a read or the setDoc is rejected: the catch block resets the provider
FetchFail(op) ==
  /\ op.kind = "fetch" /\ op.phase \in {"sent", "missing", "bets"}
  /\ balance' = INITIAL_VIRTUAL_BALANCE
  /\ bets' = <<>>
  /\ lastToast' = Toast("Wallet Error", "failed")
  /\ inflight' = Consumed(op)
  /\ UNCHANGED <<now, currentUser, gameVars, storeBalance, storeBets, nextBetId, commitLog, calls>>

\* the wallet being loaded, once or again, while funds are added; updateDoc
\* on a wallet document that does not exist is rejected by the store
FetchNext ==
  \/ FetchStart
  \/ \E op \in BagToSet(inflight) : FetchGetDoc(op)
  \/ \E op \in BagToSet(inflight) : FetchCreateWallet(op)
  \/ \E op \in BagToSet(inflight) : FetchCreated(op)
  \/ \E op \in BagToSet(inflight) : FetchBets(op)
  \/ \E op \in BagToSet(inflight) : FetchFail(op)
  \/ \E amount \in FundAmounts : AddFundsStart(amount)
  \/ \E op \in BagToSet(inflight) : storeBalance # NoWallet /\ StoreAddFunds(op)
  \/ \E op \in BagToSet(inflight) : StoreFail(op)
  \/ \E op \in BagToSet(inflight) : AddFundsDone(op)

FetchSpec == FetchInit /\ [][FetchNext]_vars

\* ------------------------------------------- accounts coming and going
\* the wallet document of the second account, which none of the followed
\* operations writes, and its bets query, which finds nothing
OtherWalletBalance == INITIAL_VIRTUAL_BALANCE

\* onAuthStateChanged hands over a user or null, setCurrentUser takes it and
\* the wallet effect of the next render runs: fetchUserWalletData up to the
\* await of getDoc for a user, the reset of balance and bets for null
onAuthStateChanged(firebaseUser) ==
  /\ firebaseUser # currentUser
  /\ calls < MaxCalls /\ calls' = calls + 1
  /\ currentUser' = firebaseUser
  /\ IF firebaseUser = NoUser
     THEN /\ balance' = INITIAL_VIRTUAL_BALANCE
          /\ bets' = <<>>
          /\ UNCHANGED inflight
     ELSE /\ BagCardinality(inflight) < MaxInFlight
          /\ inflight' = inflight (+)
               SetToBag({Op(IF firebaseUser = User THEN "fetch" ELSE "fetchOther",
                            0, NoBet, NoUpdates, 0)})
          /\ UNCHANGED <<balance, bets>>
  /\ UNCHANGED <<now, gameVars, storeBalance, storeBets, nextBetId, lastToast,
                 commitLog>>

\* getDoc answers the fetch of the second account
FetchOtherGetDoc(op) ==
  /\ op.kind = "fetchOther" /\ op.phase = "sent"
  /\ balance' = OtherWalletBalance
  /\ inflight' = Consumed(op) (+) SetToBag({[op EXCEPT !.phase = "bets"]})
  /\ UNCHANGED <<now, currentUser, gameVars, storeBalance, storeBets, bets,
                 nextBetId, lastToast, commitLog, calls>>

\* getDocs answers the fetch of the second account
FetchOtherBets(op) ==
  /\ op.kind = "fetchOther" /\ op.phase = "bets"
  /\ bets' = <<>>
  /\ inflight' = Consumed(op)
  /\ UNCHANGED <<now, currentUser, gameVars, storeBalance, storeBets, balance,
                 nextBetId, lastToast, commitLog, calls>>

\* the ledger while accounts sign in and out: the first account places,
\* withdraws and adds funds, the second account and nobody only try to
\* withdraw, and the sweeper runs for whoever is signed in
AuthNext ==
  \/ \E firebaseUser \in {User, OtherUser, NoUser} : onAuthStateChanged(firebaseUser)
  \/ \E op \in BagToSet(inflight) : FetchGetDoc(op)
  \/ \E op \in BagToSet(inflight) : FetchBets(op)
  \/ \E op \in BagToSet(inflight) : FetchOtherGetDoc(op)
  \/ \E op \in BagToSet(inflight) : FetchOtherBets(op)
  \/ \E amount \in FundAmounts : currentUser # OtherUser /\ AddFundsStart(amount)
  \/ \E matchId \in MatchIds, stake \in Stakes, odds \in OddsValues,
        matchTime \in MatchTimes :
        currentUser # OtherUser /\ PlaceBetStart(matchId, stake, odds, matchTime)
  \/ \E betId \in BetIds : WithdrawBetStart(betId)
  \/ \E won \in SUBSET BetIds : ResolveStart(won)
  \/ \E op \in BagToSet(inflight) : StoreAddFunds(op)
  \/ \E op \in BagToSet(inflight) : StorePlaceBet(op)
  \/ \E op \in BagToSet(inflight) : StoreWithdrawBet(op)
  \/ \E op \in BagToSet(inflight) : StoreResolve(op)
  \/ \E op \in BagToSet(inflight) : AddFundsDone(op)
  \/ \E op \in BagToSet(inflight) : PlaceBetDone(op)
  \/ \E op \in BagToSet(inflight) : WithdrawBetDone(op)
  \/ \E op \in BagToSet(inflight) : ResolveDone(op)
  \/ AdvanceTime

AuthSpec == Init /\ [][AuthNext]_vars

\* -------------------------------------------------- the round, fairly
\* the plane game with the default bet: a live interval keeps firing, React
\* commits what is queued and runs the effect of what it committed, and the
\* store answers a debit that was sent
RoundFairNext ==
  \/ StartGame
  \/ \E op \in BagToSet(inflight) : StorePlaceGameBet(op)
  \/ \E op \in BagToSet(inflight) : StoreFailGameBet(op)
  \/ \E op \in BagToSet(inflight), cp \in CrashPoints : PlaceGameBetDone(op, cp)
  \/ \E id \in liveIntervals, jitter \in Jitters : Tick(id, jitter)
  \/ CashOutClick
  \/ Render
  \/ GameEffect
  \/ ResetGame
  \/ \E value \in TargetInputs : TargetMultiplierChange(value)
  \/ \E op \in BagToSet(inflight) : StoreUpdateBalance(op)
  \/ \E op \in BagToSet(inflight), code \in {"unavailable", "other"} :
        StoreFailUpdateBalance(op, code)

RoundFairSpec ==
  /\ Init
  /\ [][RoundFairNext]_vars
  /\ WF_vars(\E id \in liveIntervals, jitter \in Jitters : Tick(id, jitter))
  /\ WF_vars(Render)
  /\ WF_vars(GameEffect)

\* ------------------------------------------- the periodic sweeper, fairly
\* placements, the clock and the sweeper's interval; the interval keeps
\* firing, the store answers every write and accepts a sweep that is sent
\* again and again, and every continuation runs
SweeperNext ==
  \/ \E matchId \in MatchIds, stake \in Stakes, odds \in OddsValues,
        matchTime \in MatchTimes : PlaceBetStart(matchId, stake, odds, matchTime)
  \/ \E op \in BagToSet(inflight) : StorePlaceBet(op)
  \/ \E op \in BagToSet(inflight) : StoreFail(op)
  \/ \E op \in BagToSet(inflight) : PlaceBetDone(op)
  \/ AdvanceTime
  \/ \E won \in SUBSET BetIds : SweeperInterval(won)
  \/ \E op \in BagToSet(inflight) : StoreResolve(op)
  \/ \E op \in BagToSet(inflight), code \in {"unavailable", "other"} :
        StoreFailResolve(op, code)
  \/ \E op \in BagToSet(inflight) : ResolveDone(op)

SweeperSpec ==
  /\ Init
  /\ [][SweeperNext]_vars
  /\ WF_vars(\E won \in SUBSET BetIds : SweeperInterval(won))
  /\ WF_vars(\E op \in BagToSet(inflight) : StorePlaceBet(op) \/ StoreFail(op))
  /\ WF_vars(\E op \in BagToSet(inflight) : PlaceBetDone(op))
  /\ SF_vars(\E op \in BagToSet(inflight) : StoreResolve(op))
  /\ WF_vars(\E op \in BagToSet(inflight) : ResolveDone(op))

\* ------------------------------------------------- the validators alone
\* wallets and bet lists that fetchUserWalletData can load, and stakes that
\* the forms can submit: zero, negative, below, at, between, at and above the
\* limits of both validators
ValidatorBalances == {0, Units(3), Units(100), Units(1000)}
ValidatorStakes ==
  {0 - Units(1), 0, 5000, Units(1), Units(3), Units(5), Units(50), Units(100),
   Units(101), Units(500), Units(501)}
ValidatorBetLists ==
  {<<>>} \cup
  {<<[id |-> 1, matchId |-> m, stake |-> Units(5), potentialWinnings |-> Units(10),
      matchTime |-> 6, status |-> st, betType |-> bt, userId |-> User]>> :
     m \in MatchIds, st \in {"pending", "won"}, bt \in {"match", "game"}}

ValidatorInit ==
  /\ now = 0
  /\ currentUser = User
  /\ balance \in ValidatorBalances
  /\ storeBalance = balance
  /\ bets \in ValidatorBetLists
  /\ storeBets = [id \in BetIds |->
                    IF Len(bets) > 0 /\ bets[1].id = id THEN bets[1] ELSE NoBet]
  /\ nextBetId = Len(bets) + 1
  /\ inflight = EmptyBag
  /\ lastToast = NoToast
  /\ commitLog = [id \in BetIds |-> [withdrawn |-> 0, resolved |-> 0]]
  /\ calls = 0
  /\ gamePhase = "idle"
  /\ currentMultiplier = 100
  /\ crashPoint = 0
  /\ multiplierHistory = <<100>>
  /\ startTime = FALSE
  /\ betAmount = Units(10)
  /\ targetMultiplier = 200
  /\ pending = gameState
  /\ effectPending = FALSE
  /\ intervalRef = 0
  /\ liveIntervals = {}
  /\ round = 0
  /\ shownRound = 0
  /\ roundCredits = 0
  /\ debitedStake = 0

\* a validator that takes the stake from the balance it is given when it
\* accepts the bet
CallValidateBetPlacementReserving(stake, matchId) ==
  LET result == validateBetPlacement(stake, balance, bets, matchId,
                                     MIN_BET_AMOUNT, MAX_BET_AMOUNT)
  IN
  /\ lastToast' = Toast(result, "")
  /\ balance' = IF result = NoError THEN balance - stake ELSE balance
  /\ UNCHANGED <<now, currentUser, gameVars, storeBalance, storeBets, bets,
                 inflight, nextBetId, commitLog, calls>>

\* validateBetPlacement called as placeBet calls it; lastToast holds the
\* title of the result
CallValidateBetPlacement(stake, matchId) ==
  /\ lastToast' = Toast(validateBetPlacement(stake, balance, bets, matchId,
                                             MIN_BET_AMOUNT, MAX_BET_AMOUNT), "")
  /\ UNCHANGED <<now, currentUser, gameVars, storeBalance, storeBets, balance, bets,
                 inflight, nextBetId, commitLog, calls>>

\* validateGameAction called as startGame calls it
CallValidateGameAction(stake) ==
  /\ lastToast' = Toast(validateGameAction(stake, balance, MIN_BET, MAX_BET), "")
  /\ UNCHANGED <<now, currentUser, gameVars, storeBalance, storeBets, balance, bets,
                 inflight, nextBetId, commitLog, calls>>

ValidatorNext ==
  \/ \E stake \in ValidatorStakes, matchId \in MatchIds :
        CallValidateBetPlacement(stake, matchId)
  \/ \E stake \in ValidatorStakes : CallValidateGameAction(stake)

ValidatorSpec == ValidatorInit /\ [][ValidatorNext]_vars

\* ----------------------------------------------------------------- claims
Terminal == {"crashed", "cashed_out"}

\* C1: the wallet balance, in the store and in the provider, is never
\* negative after any interleaving of the wallet operations
BalanceNeverNegative == storeBalance >= 0 /\ balance >= 0

\* C2: a withdrawal and a sweeper resolution of the same wager never both
\* commit
WithdrawAndResolveExclusive ==
  \A id \in BetIds :
    ~(commitLog[id].withdrawn > 0 /\ commitLog[id].resolved > 0)

\* C3: a status other than pending, in the store or in the provider, is
\* never changed by a later step
StatusMonotonic ==
  [][ /\ \A id \in BetIds :
           (storeBets[id] # NoBet /\ storeBets[id].status # "pending")
             => storeBets'[id].status = storeBets[id].status
      /\ \A k \in 1..Len(bets) :
           bets[k].status # "pending"
             => \E j \in 1..Len(bets') :
                  bets'[j].id = bets[k].id /\ bets'[j].status = bets[k].status
    ]_vars

\* C4: no wager is resolved by more than one committed sweep
ResolvedAtMostOnce == \A id \in BetIds : commitLog[id].resolved <= 1

\* C5: a placement that commits never debits more than the balance the store
\* holds at that moment
PlacementsNeverOverdraw ==
  [][ \A op \in BagToSet(inflight) :
        (/\ op.kind \in {"placeBet", "placeGameBet"}
         /\ op.phase = "sent"
         /\ inflight' = Acked(op))
          => op.amount <= storeBalance
    ]_vars

\* C6: at most one pending match bet per user and match, in the store and in
\* the provider
OnePendingBetPerMatch ==
  /\ \A i, j \in BetIds :
       (/\ i # j
        /\ storeBets[i] # NoBet /\ storeBets[j] # NoBet
        /\ storeBets[i].status = "pending" /\ storeBets[j].status = "pending"
        /\ storeBets[i].userId = storeBets[j].userId)
         => storeBets[i].matchId # storeBets[j].matchId
  /\ \A i, j \in 1..Len(bets) :
       (/\ i # j
        /\ bets[i].status = "pending" /\ bets[j].status = "pending"
        /\ bets[i].userId = bets[j].userId)
         => bets[i].matchId # bets[j].matchId

\* C7: placeBet is atomic: a step creates a bet document exactly when it
\* debits that bet's stake from the stored balance, and a step adds a bet to
\* the provider's list exactly when it debits its stake from the local balance
PlaceBetAtomic ==
  [][ /\ (\E id \in BetIds : storeBets[id] = NoBet /\ storeBets'[id] # NoBet)
           <=> storeBalance' < storeBalance
      /\ \A id \in BetIds :
           (storeBets[id] = NoBet /\ storeBets'[id] # NoBet)
             => /\ storeBets'[id].status = "pending"
                /\ storeBalance' = storeBalance - storeBets'[id].stake
      /\ Len(bets') > Len(bets) <=> balance' < balance
      /\ Len(bets') > Len(bets)
           => /\ Len(bets') = Len(bets) + 1
              /\ bets'[1].status = "pending"
              /\ balance' = balance - bets'[1].stake
    ]_vars

\* a placed bet is in the store and in the provider, with its stake debited
PlaceBetAtomicWitness ==
  \E id \in BetIds :
    /\ storeBets[id] # NoBet
    /\ storeBets[id].status = "pending"
    /\ \E k \in 1..Len(bets) : bets[k].id = id
    /\ storeBalance = Units(500) - storeBets[id].stake
    /\ balance = storeBalance

\* C8: when the store rejects a write, the balance and the bets are as they
\* were before the operation was called, in the store and in the provider,
\* and an error is shown
FailedCommitChangesNothing ==
  [][ \A op \in BagToSet(inflight) :
        (/\ op.phase = "sent"
         /\ inflight' = Consumed(op)
         /\ storeBalance' = storeBalance)
          => /\ balance' = balance - op.applied
             /\ bets' = bets
             /\ storeBets' = storeBets
             /\ lastToast'.description = "failed"
    ]_vars

\* C9: a round that ends cashed_out was credited once, one that ends crashed
\* was not credited, and no round is credited twice
SettledExactlyOnce ==
  /\ roundCredits <= 1
  /\ gamePhase = "cashed_out" => roundCredits = 1
  /\ gamePhase = "crashed" => roundCredits = 0

FinalMultiplierAtMostCrashPoint ==
  gamePhase \in Terminal => currentMultiplier <= crashPoint

\* C12 as claimed: a cashed_out round with a target below its crash point
\* has a final multiplier of at least the target
CashedOutMeetsTarget ==
  (/\ gamePhase = "cashed_out"
   /\ targetMultiplier # 0
   /\ crashPoint > targetMultiplier)
    => currentMultiplier >= targetMultiplier

\* C12 as amended: when the auto-cash-out check of the effect cashes the
\* round out, the multiplier it cashes out at is at least the target and
\* below the crash point
AutoCashOutAtOrAboveTarget ==
  [][ (GameEffect /\ roundCredits' > roundCredits)
        => /\ pending'.gamePhase = "cashed_out"
           /\ pending'.currentMultiplier >= targetMultiplier
           /\ pending'.currentMultiplier < crashPoint
    ]_vars

\* the effect of a running render below the crash point has cashed out at
\* the target, once, and the cashed_out render is not committed yet
AutoCashOutWitness ==
  /\ gamePhase = "running"
  /\ ~effectPending
  /\ pending.gamePhase = "cashed_out"
  /\ roundCredits = 1
  /\ targetMultiplier = 101
  /\ currentMultiplier >= targetMultiplier
  /\ currentMultiplier < crashPoint

\* C13: a cash-out request made after the round's terminal transition has
\* been queued changes neither the balance nor the round and shows an error
CashOutAfterTerminalRejected ==
  [][ (pending.gamePhase \in Terminal /\ CashOutClick)
        => /\ balance' = balance
           /\ pending' = pending
           /\ lastToast' # lastToast
           /\ lastToast'.title # "Cashed Out!"
    ]_vars

\* C14: the balance plus the stakes of the pending bets, in the store and in
\* the provider, is the same before and after every step of placeBet and of
\* withdrawBet, successful or rejected
PlaceAndWithdrawConserveTotal ==
  [][ LET StoredStakes(sb) ==
            SumOver({id \in BetIds : sb[id] # NoBet /\ sb[id].status = "pending"},
                    [id \in BetIds |-> IF sb[id] = NoBet THEN 0 ELSE sb[id].stake])
          LocalStakes(bs) ==
            SumOver({k \in 1..Len(bs) : bs[k].status = "pending"},
                    [k \in 1..Len(bs) |-> bs[k].stake])
      IN
      (\/ \E op \in BagToSet(inflight) :
            \/ StorePlaceBet(op) \/ StoreWithdrawBet(op) \/ StoreFail(op)
            \/ PlaceBetDone(op) \/ WithdrawBetDone(op)
       \/ \E matchId \in MatchIds, stake \in Stakes, odds \in OddsValues,
             matchTime \in MatchTimes : PlaceBetStart(matchId, stake, odds, matchTime)
       \/ \E betId \in BetIds : WithdrawBetStart(betId))
        => /\ storeBalance' + StoredStakes(storeBets')
                = storeBalance + StoredStakes(storeBets)
           /\ balance' + LocalStakes(bets') = balance + LocalStakes(bets)
    ]_vars

\* C15: the validators return the error of the first failing rule in the
\* order positive stake, minimum, maximum, balance, no pending match bet on
\* the same match, and succeed exactly when every rule holds
ValidatorFirstFailingRule ==
  [][ /\ \A stake \in ValidatorStakes, matchId \in MatchIds :
           CallValidateBetPlacement(stake, matchId) =>
             LET r1 == stake > 0
                 r2 == stake >= MIN_BET_AMOUNT
                 r3 == stake <= MAX_BET_AMOUNT
                 r4 == stake <= balance
                 r5 == ~ \E k \in 1..Len(bets) :
                          /\ bets[k].matchId = matchId
                          /\ bets[k].status = "pending"
                          /\ bets[k].betType = "match"
                 t == lastToast'.title
             IN /\ (t = NoError) <=> (r1 /\ r2 /\ r3 /\ r4 /\ r5)
                /\ ~r1 => t = "Invalid Stake"
                /\ (r1 /\ ~r2) => t = "Bet Too Small"
                /\ (r1 /\ r2 /\ ~r3) => t = "Bet Too Large"
                /\ (r1 /\ r2 /\ r3 /\ ~r4) => t = "Insufficient Balance"
                /\ (r1 /\ r2 /\ r3 /\ r4 /\ ~r5) => t = "Bet Already Placed"
      /\ \A stake \in ValidatorStakes :
           CallValidateGameAction(stake) =>
             LET r1 == stake > 0
                 r2 == stake >= MIN_BET
                 r3 == stake <= MAX_BET
                 r4 == stake <= balance
                 t == lastToast'.title
             IN /\ (t = NoError) <=> (r1 /\ r2 /\ r3 /\ r4)
                /\ ~r1 => t = "Invalid Stake"
                /\ (r1 /\ ~r2) => t = "plane Bet Too Small"
                /\ (r1 /\ r2 /\ ~r3) => t = "plane Bet Too Large"
                /\ (r1 /\ r2 /\ r3 /\ ~r4) => t = "Insufficient Balance"
    ]_vars

\* a stake above the maximum and above the balance was refused for its size,
\* and the wallet holds a pending match bet
ValidatorFirstFailingRuleWitness ==
  /\ lastToast.title = "Bet Too Large"
  /\ balance = Units(100)
  /\ Len(bets) = 1
  /\ bets[1].status = "pending"
  /\ bets[1].betType = "match"

\* C16: startGame with a target that is present and outside
\* [MIN_MULTIPLIER_TARGET, MAX_MULTIPLIER_TARGET] sends no wager to the
\* wallet, so nothing is debited and no round starts
OutOfRangeTargetRejected ==
  [][ (/\ StartGame
       /\ targetMultiplier # 0
       /\ (\/ targetMultiplier < MIN_MULTIPLIER_TARGET
           \/ targetMultiplier > MAX_MULTIPLIER_TARGET))
        => inflight' = inflight
    ]_vars

\* C17: a placeBet that succeeds debits exactly its stake and leaves exactly
\* one pending bet on its match, in the store and in the provider; a
\* placeBet on a match that has a pending bet in the store is rejected, as a
\* duplicate when its stake passes the other rules, and sends nothing
PlaceBetOncePerMatch ==
  [][ /\ \A op \in BagToSet(inflight) :
           StorePlaceBet(op) =>
             /\ storeBalance' = storeBalance - op.bet.stake
             /\ Cardinality({id \in BetIds :
                               /\ storeBets'[id] # NoBet
                               /\ storeBets'[id].matchId = op.bet.matchId
                               /\ storeBets'[id].status = "pending"}) = 1
      /\ \A op \in BagToSet(inflight) :
           PlaceBetDone(op) =>
             /\ balance' = balance - op.bet.stake
             /\ Cardinality({k \in 1..Len(bets') :
                               /\ bets'[k].matchId = op.bet.matchId
                               /\ bets'[k].status = "pending"}) = 1
      /\ \A matchId \in MatchIds, stake \in Stakes, odds \in OddsValues,
            matchTime \in MatchTimes :
           (/\ PlaceBetStart(matchId, stake, odds, matchTime)
            /\ \E id \in BetIds : /\ storeBets[id] # NoBet
                                  /\ storeBets[id].matchId = matchId
                                  /\ storeBets[id].status = "pending")
             => /\ inflight' = inflight
                /\ lastToast'.title # NoToast.title
                /\ stake <= balance => lastToast'.title = "Bet Already Placed"
    ]_vars

\* C18: withdrawBet sends its batch only when the match time minus the
\* clock is strictly greater than the cutoff; at the cutoff or later it
\* fails with a toast and changes neither balance nor bets
WithdrawOnlyBeforeCutoff ==
  [][ \A betId \in BetIds :
        WithdrawBetStart(betId) =>
          /\ inflight' # inflight
                => \E k \in 1..Len(bets) :
                     /\ bets[k].id = betId
                     /\ bets[k].matchTime - now > BET_WITHDRAWAL_CUTOFF_MS
          /\ \A k \in 1..Len(bets) :
                (bets[k].id = betId
                 /\ bets[k].matchTime - now <= BET_WITHDRAWAL_CUTOFF_MS)
                  => /\ inflight' = inflight
                     /\ lastToast'.title \in {"Withdrawal Failed", "Error"}
                     /\ balance' = balance /\ bets' = bets
                     /\ storeBalance' = storeBalance /\ storeBets' = storeBets
    ]_vars

\* a withdrawal of a pending bet asked exactly at the cutoff was refused
WithdrawOnlyBeforeCutoffWitness ==
  /\ lastToast = Toast("Withdrawal Failed", "Too close to match start.")
  /\ inflight = EmptyBag
  /\ \E k \in 1..Len(bets) :
        /\ bets[k].status = "pending"
        /\ bets[k].matchTime - now = BET_WITHDRAWAL_CUTOFF_MS
        /\ storeBets[bets[k].id].status = "pending"

\* C19: a withdrawBet that commits on a pending bet sets that bet to
\* withdrawn, credits exactly its stake and changes no other bet, in the
\* store and then in the provider; after one placeBet and one withdrawBet
\* and nothing else the balance is the one the wallet started with
WithdrawRefundsStake ==
  [][ /\ \A op \in BagToSet(inflight) :
           (StoreWithdrawBet(op) /\ storeBets[op.bet.id].status = "pending")
             => /\ storeBets'[op.bet.id].status = "withdrawn"
                /\ storeBalance' = storeBalance + storeBets[op.bet.id].stake
                /\ \A id \in BetIds \ {op.bet.id} : storeBets'[id] = storeBets[id]
      /\ \A op \in BagToSet(inflight) :
           WithdrawBetDone(op) =>
             \A k \in 1..Len(bets) :
               IF bets[k].id = op.bet.id
               THEN /\ bets'[k].status = "withdrawn"
                    /\ bets[k].status = "pending"
                          => balance' = balance + bets[k].stake
               ELSE bets'[k] = bets[k]
      /\ (/\ calls = 2 /\ nextBetId = 2 /\ inflight = EmptyBag
          /\ commitLog[1].withdrawn = 1
          /\ Len(bets) = 1 /\ bets[1].status = "withdrawn")
           => /\ storeBalance \in LoadedBalances
              /\ balance = storeBalance
    ]_vars

\* one bet was placed and withdrawn, and the wallet is back at its balance
WithdrawRefundsStakeWitness ==
  /\ calls = 2 /\ inflight = EmptyBag
  /\ storeBets[1] # NoBet /\ storeBets[1].status = "withdrawn"
  /\ Len(bets) = 1 /\ bets[1].status = "withdrawn"
  /\ storeBalance \in LoadedBalances
  /\ balance = storeBalance

\* C20: withdrawBet on a bet that does not exist, is not a match bet or is
\* not pending, in the store or in the provider, fails with a toast, sends
\* nothing and changes neither balance nor bets
WithdrawNonPendingFails ==
  [][ \A betId \in BetIds :
        (/\ WithdrawBetStart(betId)
         /\ \/ storeBets[betId] = NoBet
            \/ storeBets[betId].status # "pending"
            \/ storeBets[betId].betType # "match"
            \/ ~ \E k \in 1..Len(bets) :
                   bets[k].id = betId /\ bets[k].status = "pending")
          => /\ inflight' = inflight
             /\ lastToast'.title \in {"Error", "Withdrawal Failed"}
             /\ balance' = balance /\ bets' = bets
             /\ storeBalance' = storeBalance /\ storeBets' = storeBets
    ]_vars

\* C21: a sweep that commits on pending bets credits the stored balance
\* with exactly the potential winnings, fixed at placement as stake times
\* odds, of the bets it marks won, and nothing for those it marks lost; its
\* continuation credits the local balance with the same sum
SweepCreditsWonPayouts ==
  [][ /\ \A op \in BagToSet(inflight) :
           (/\ StoreResolve(op)
            /\ \A id \in BetIds :
                  op.updates[id] # "none" => storeBets[id].status = "pending")
             => LET wonIds == {id \in BetIds : storeBets'[id] # NoBet
                                                /\ storeBets[id].status = "pending"
                                                /\ storeBets'[id].status = "won"}
                IN /\ storeBalance' - storeBalance =
                        SumOver(wonIds,
                                [id \in BetIds |->
                                   IF storeBets[id] = NoBet THEN 0
                                   ELSE storeBets[id].potentialWinnings])
                   /\ \A id \in wonIds :
                         \E odds \in OddsValues :
                           storeBets[id].potentialWinnings =
                             toFixed2((storeBets[id].stake * odds) \div 100)
      /\ \A op \in BagToSet(inflight) :
           ResolveDone(op) =>
             balance' - balance =
               SumOver({id \in BetIds : op.updates[id] = "won"},
                       [id \in BetIds |->
                          IF storeBets[id] = NoBet THEN 0
                          ELSE storeBets[id].potentialWinnings])
    ]_vars

\* one sweep has marked one bet won and another lost, and paid the first
SweepCreditsWonPayoutsWitness ==
  /\ \E i, j \in BetIds :
        /\ storeBets[i] # NoBet /\ storeBets[j] # NoBet
        /\ storeBets[i].status = "won" /\ storeBets[j].status = "lost"
        /\ commitLog[i].resolved = 1 /\ commitLog[j].resolved = 1
        /\ \E k \in 1..Len(bets) : bets[k].id = i /\ bets[k].status = "won"
  /\ inflight = EmptyBag

\* C22: a sweep changes a bet, in the store or in the provider, only if that
\* bet is then a pending match bet whose match time has passed
SweepTouchesOnlyDuePendingBets ==
  [][ /\ \A op \in BagToSet(inflight) :
           StoreResolve(op) =>
             \A id \in BetIds :
               storeBets'[id] # storeBets[id]
                 => /\ storeBets[id].status = "pending"
                    /\ storeBets[id].betType = "match"
                    /\ storeBets[id].matchTime < now
      /\ \A op \in BagToSet(inflight) :
           ResolveDone(op) =>
             \A k \in 1..Len(bets) :
               bets'[k] # bets[k]
                 => /\ bets[k].status = "pending"
                    /\ bets[k].betType = "match"
                    /\ bets[k].matchTime < now
    ]_vars

AddFundsCreditsExactlyAmount ==
  [][ /\ \A amount \in FundAmounts :
            (AddFundsStart(amount) /\ amount <= 0)
              => /\ inflight' = inflight
                 /\ lastToast' = Toast("Invalid Amount", "")
                 /\ storeBalance' = storeBalance /\ storeBets' = storeBets
                 /\ balance' = balance /\ bets' = bets
      /\ \A op \in BagToSet(inflight) :
            StoreAddFunds(op)
              => /\ op.amount > 0
                 /\ storeBalance' = storeBalance + op.amount
                 /\ storeBets' = storeBets
      /\ \A op \in BagToSet(inflight) :
            AddFundsDone(op)
              => /\ op.amount > 0
                 /\ balance' = balance + op.amount
                 /\ bets' = bets
    ]_vars

\* funds have been added once and nothing else has happened to the wallet
AddFundsCreditsExactlyAmountWitness ==
  /\ lastToast = Toast("Funds Added", "")
  /\ inflight = EmptyBag
  /\ storeBalance = Units(1000) /\ balance = Units(1000)
  /\ bets = <<>>

AtMostOneLiveInterval ==
  /\ Cardinality(liveIntervals) <= 1
  /\ liveIntervals \subseteq {intervalRef}

\* a second start, sent while the first was awaiting its debit, has replaced
\* the interval of the first
AtMostOneLiveIntervalWitness ==
  /\ round = 2
  /\ intervalRef = 2
  /\ liveIntervals = {2}

\* C28: whenever no operation is in flight the provider's balance is the
\* stored balance and every bet of the provider has its stored status
LocalStateIsCacheOfStore ==
  inflight = EmptyBag
    => /\ balance = storeBalance
       /\ \A k \in 1..Len(bets) :
            /\ storeBets[bets[k].id] # NoBet
            /\ bets[k].status = storeBets[bets[k].id].status

\* C29: a running round whose committed multiplier has reached the crash
\* point is sent to crashed by the effect of that render; the render that
\* shows the round crashed shows exactly the crash point, and the round has
\* been given no credit, so the local balance is what the debit left
RunningToCrashedAtCrashPoint ==
  /\ []((/\ gamePhase = "running"
         /\ currentMultiplier >= crashPoint
         /\ ~effectPending) => pending.gamePhase = "crashed")
  /\ [][(gamePhase = "running" /\ gamePhase' = "crashed")
          => /\ currentMultiplier' = crashPoint'
             /\ roundCredits' = 0
             /\ balance' = balance]_vars

\* C30: a round whose committed crash point is 1.00 is never cashed out and
\* never credited: the local balance stays what the debit of the stake left
CrashAtOneNeverPays ==
  (crashPoint = 100 /\ gamePhase \in {"running", "crashed", "cashed_out"})
    => /\ gamePhase # "cashed_out"
       /\ roundCredits = 0

\* C31: every cash-out, by the button or by the effect, credits the stake
\* debited for the round times the multiplier of the render it is taken
\* from; an auto-cash-out of a round with a target credits stake x target
CashOutCreditsStakeTimesMultiplier ==
  [][roundCredits' = roundCredits + 1
       => /\ balance' = balance + (debitedStake * currentMultiplier) \div 100
          /\ pending'.currentMultiplier = currentMultiplier
          /\ (effectPending /\ ~effectPending')
               => balance' = balance + (debitedStake * targetMultiplier) \div 100
    ]_vars

\* C32: while the committed round is running no step begins another round:
\* the round counter and the queued crash point stay, the queued multiplier
\* is not sent back while the round keeps running, and no stake is debited
\* in the store or in the provider
NoSecondRoundWhileRunning ==
  [][gamePhase = "running"
       => /\ round' = round
          /\ pending'.crashPoint = pending.crashPoint
          /\ pending'.gamePhase = "running"
               => pending'.currentMultiplier >= pending.currentMultiplier
          /\ storeBalance' >= storeBalance
          /\ balance' >= balance
    ]_vars

\* C35: a stake is debited only for a round that is played: when the
\* continuation of a start begins its round, no earlier round is still
\* running unsettled, so the stakes debited are as many as the rounds run
StakeDebitedOncePerRound ==
  [][round' = round + 1 => pending.gamePhase # "running"]_vars

\* C33: no step removes a bet document from the store, and a stored bet
\* that is won, lost or withdrawn is still there with that status after
\* every step
WagersNeverDeleted ==
  [][\A id \in BetIds :
        storeBets[id] # NoBet
          => /\ storeBets'[id] # NoBet
             /\ storeBets[id].status \in {"won", "lost", "withdrawn"}
                  => storeBets'[id].status = storeBets[id].status]_vars

CashOutStakeIsDebitedStake ==
  gamePhase = "running" => betAmount = debitedStake

\* C37: the tick updater adds at least 0.01 to every multiplier from 1.00 to
\* the largest crash point drawn, every tick of a live interval raises the
\* queued multiplier by at least 0.01, and every round that is shown running is eventually shown
\* crashed or cashed_out
RunningRoundEventuallyEnds ==
  /\ \A prev \in 100..MAX_CRASH_POINT, jitter \in Jitters :
       TickValue(prev, jitter) >= prev + 1
  /\ [][\A id \in liveIntervals, jitter \in Jitters :
          Tick(id, jitter)
            => pending'.currentMultiplier >= pending.currentMultiplier + 1]_vars
  /\ (gamePhase = "running") ~> (gamePhase \in Terminal)

\* a round with crash point 1.02 has been ticked up from 1.00 and is shown
\* crashed at 1.02
RunningRoundEventuallyEndsWitness ==
  /\ gamePhase = "crashed"
  /\ crashPoint = 102
  /\ currentMultiplier = 102
  /\ Len(multiplierHistory) >= 3
  /\ liveIntervals = {}

\* C38: the store writes the initial balance for a fetch only while the
\* wallet document does not exist, so the write never replaces a balance
\* that is already stored
InitialBalanceOnlyForMissingWallet ==
  [][\A op \in BagToSet(inflight) :
        FetchCreateWallet(op) => storeBalance = NoWallet]_vars

\* C39: withdrawBet and the sweeper send no write for a wager whose userId is
\* not the signed-in user's, their continuations change neither the status
\* the provider shows for such a wager nor the balance it shows on account of
\* one, and with nobody signed in a call of addFunds, placeBet, withdrawBet or
\* the sweeper leaves the wallet, in the provider and in the store, as it is
OwnWagersOnly ==
  [][
      /\ \A betId \in BetIds :
           WithdrawBetStart(betId) =>
             \A op \in BagToSet(inflight') :
               CopiesIn(op, inflight') > CopiesIn(op, inflight) =>
                 op.bet.userId = currentUser
      /\ \A won \in SUBSET BetIds :
           ResolveStart(won) =>
             \A op \in BagToSet(inflight') :
               CopiesIn(op, inflight') > CopiesIn(op, inflight) =>
                 \A k \in 1..Len(bets) :
                   op.updates[bets[k].id] # "none" => bets[k].userId = currentUser
      /\ \A op \in BagToSet(inflight) :
           WithdrawBetDone(op) /\ op.bet.userId # currentUser =>
             /\ balance' = balance
             /\ \A k \in 1..Len(bets) : bets'[k].status = bets[k].status
      /\ \A op \in BagToSet(inflight) :
           (/\ ResolveDone(op)
            /\ \E id \in BetIds :
                 op.updates[id] # "none" /\ storeBets[id].userId # currentUser) =>
             /\ balance' = balance
             /\ \A k \in 1..Len(bets) : bets'[k].status = bets[k].status
      /\ (/\ currentUser = NoUser
          /\ \/ \E amount \in FundAmounts : AddFundsStart(amount)
             \/ \E matchId \in MatchIds, stake \in Stakes, odds \in OddsValues,
                   matchTime \in MatchTimes :
                   PlaceBetStart(matchId, stake, odds, matchTime)
             \/ \E betId \in BetIds : WithdrawBetStart(betId)
             \/ \E won \in SUBSET BetIds : ResolveStart(won)) =>
           UNCHANGED <<balance, bets, storeBalance, storeBets, inflight, nextBetId>>
  ]_vars

====
